---------------------------- MODULE Spec2Model ----------------------------
(***************************************************************************)
(* Model of src/app.py: the per-machine latest-value store (one JSON file  *)
(* per machine in DATA_DIR) and the Flask handlers over it.                *)
(*                                                                         *)
(* Text is modelled as a sequence of tokens.  A float is a record          *)
(* [cls, tenths]: cls is "fin", "nan", "inf" or "-inf" and, for "fin", the *)
(* value is tenths/10.  The clock counts half seconds.                     *)
(***************************************************************************)
EXTENDS Integers, Sequences, FiniteSets, Bags, TLC

VARIABLES
    files,   \* DATA_DIR: file name -> content (a token sequence)
    clock,   \* the value datetime.now() returns next
    req,     \* the request most recently handled to completion
    resp,    \* its response, [code, body]
    prior,   \* history: the status GET /api/weight/<req.machine_id> had when
             \* that request arrived ("none" for a request without machine_id)
    pc,      \* concurrent requests: where each request's thread stands
    treq,    \* the request each thread handles
    buf,     \* the text json.dump has put in the thread's file buffer
    tresp,   \* the response each thread has returned
    order,   \* history: the threads in the order they returned
    todo,    \* the names os.listdir gave a thread that it has yet to visit
    summaries \* what the thread has appended to `machines` so far (a bag)

seqvars == <<req, resp, prior>>
lstvars == <<todo, summaries>>
thrvars == <<pc, treq, buf, tresp, order, todo, summaries>>
vars == <<files, clock, req, resp, prior, pc, treq, buf, tresp, order, todo, summaries>>

(***************************************************************************)
(* Bounds of the model.                                                    *)
(***************************************************************************)
MaxClock == 1
NThreads == 2
Threads == 1..NThreads

(***************************************************************************)
(* Floats and their text.                                                  *)
(***************************************************************************)
Fin(t) == [cls |-> "fin", tenths |-> t]
NaN == [cls |-> "nan", tenths |-> 0]
Inf == [cls |-> "inf", tenths |-> 0]

DigitChars == <<"0", "1", "2", "3", "4", "5", "6", "7", "8", "9">>
Digit(d) == DigitChars[d + 1]
IsDigit(c) == \E d \in 0..9 : Digit(d) = c
DigitVal(c) == CHOOSE d \in 0..9 : Digit(d) = c

RECURSIVE IntRepr(_)
IntRepr(n) == IF n < 10 THEN <<Digit(n)>>
              ELSE IntRepr(n \div 10) \o <<Digit(n % 10)>>

RECURSIVE IntParse(_)
IntParse(s) == IF Len(s) = 0 THEN 0
               ELSE 10 * IntParse(SubSeq(s, 1, Len(s) - 1)) + DigitVal(s[Len(s)])

Abs(t) == IF t < 0 THEN -t ELSE t

\* float_repr printing only the last digit of the integer part
float_repr_units(x) ==
    <<Digit((Abs(x.tenths) \div 10) % 10), ".", Digit(Abs(x.tenths) % 10)>>

\* float.__repr__ as json.dump writes it (allow_nan is left at its default)
float_repr(x) ==
    CASE x.cls = "nan" -> <<"NaN">>
      [] x.cls = "inf" -> <<"Infinity">>
      [] x.cls = "-inf" -> <<"-Infinity">>
      [] OTHER -> (IF x.tenths < 0 THEN <<"-">> ELSE <<>>)
                  \o IntRepr(Abs(x.tenths) \div 10)
                  \o <<".", Digit(Abs(x.tenths) % 10)>>

AllDigits(s) == Len(s) > 0 /\ \A i \in 1..Len(s) : IsDigit(s[i])

\* the JSON scanner's number: -?digits.digit, or one of the constants
IsNumberText(s) ==
    \/ s \in {<<"NaN">>, <<"Infinity">>, <<"-Infinity">>}
    \/ LET u == IF Len(s) > 0 /\ s[1] = "-" THEN Tail(s) ELSE s
       IN  /\ Len(u) >= 3
           /\ u[Len(u) - 1] = "."
           /\ IsDigit(u[Len(u)])
           /\ AllDigits(SubSeq(u, 1, Len(u) - 2))

parse_float(s) ==
    CASE s = <<"NaN">> -> NaN
      [] s = <<"Infinity">> -> Inf
      [] s = <<"-Infinity">> -> [cls |-> "-inf", tenths |-> 0]
      [] OTHER ->
         LET neg == s[1] = "-"
             u == IF neg THEN Tail(s) ELSE s
             mag == 10 * IntParse(SubSeq(u, 1, Len(u) - 2)) + DigitVal(u[Len(u)])
         IN  Fin(IF neg THEN -mag ELSE mag)

(***************************************************************************)
(* Time: isoformat keeps the clock's resolution, strftime('%H:%M:%S')      *)
(* truncates to whole seconds.                                             *)
(***************************************************************************)
isoformat(t) == Digit(t)
strftime(t) == Digit(t \div 2)

(***************************************************************************)
(* The record codec: json.dump of the dict of save_weight_data, json.load  *)
(* of a file's content.                                                    *)
(***************************************************************************)
json_dump(data) ==
    <<"{", "machine_id", "q">> \o data.machine_id \o <<"q", "weight">>
    \o float_repr(data.weight)
    \o <<"timestamp", data.timestamp, "last_updated", data.last_updated, "}">>

FirstAt(s, from, tok) ==
    IF \E j \in from..Len(s) : s[j] = tok
    THEN CHOOSE j \in from..Len(s) : s[j] = tok /\ \A i \in from..(j - 1) : s[i] # tok
    ELSE 0

\* the position of the closing quote of the machine_id string, of the
\* "timestamp" key, and whether the whole text is one well-formed record
json_wellformed(s) ==
    \E n \in {Len(s)}, q \in {FirstAt(s, 4, "q")} :
        \E k \in {IF q = 0 THEN 0 ELSE FirstAt(s, q + 2, "timestamp")} :
            /\ n >= 4
            /\ s[1] = "{" /\ s[2] = "machine_id" /\ s[3] = "q"
            /\ q # 0 /\ k # 0
            /\ s[q + 1] = "weight"
            /\ IsNumberText(SubSeq(s, q + 2, k - 1))
            /\ n = k + 4
            /\ IsDigit(s[k + 1])
            /\ s[k + 2] = "last_updated"
            /\ IsDigit(s[k + 3])
            /\ s[k + 4] = "}"

\* two JSON texts that are objects but not records: {} and
\* {"machine_id": "<id>"}
EmptyDict == [k \in {} |-> <<>>]

json_empty_object(s) == s = <<"{", "}">>

json_id_object(s) ==
    LET q == FirstAt(s, 4, "q")
    IN  /\ Len(s) >= 5
        /\ s[1] = "{" /\ s[2] = "machine_id" /\ s[3] = "q"
        /\ q # 0
        /\ Len(s) = q + 1
        /\ s[q + 1] = "}"

\* json.load: [raised, value]; a dict is a function from its keys;
\* JSONDecodeError on a text that is not JSON
json_load(s) ==
    CASE json_wellformed(s) ->
           LET q == FirstAt(s, 4, "q")
               k == FirstAt(s, q + 2, "timestamp")
           IN  [raised |-> FALSE,
                value |-> [machine_id |-> SubSeq(s, 4, q - 1),
                           weight |-> parse_float(SubSeq(s, q + 2, k - 1)),
                           timestamp |-> s[k + 1],
                           last_updated |-> s[k + 3]]]
      [] json_empty_object(s) -> [raised |-> FALSE, value |-> EmptyDict]
      [] json_id_object(s) ->
           [raised |-> FALSE,
            value |-> [machine_id |-> SubSeq(s, 4, FirstAt(s, 4, "q") - 1)]]
      [] OTHER -> [raised |-> TRUE]


(***************************************************************************)
(* The file system under DATA_DIR.                                         *)
(***************************************************************************)
\* open without O_TRUNC: an existing file keeps its content
open_w_keep(fs, f) ==
    [g \in (DOMAIN fs) \cup {f} |-> IF g \in DOMAIN fs THEN fs[g] ELSE <<>>]

\* open truncating every file of the directory
open_w_dir(fs, f) == [g \in (DOMAIN fs) \cup {f} |-> <<>>]

\* open(path, 'w'): O_CREAT | O_TRUNC, the descriptor's offset is 0
open_w(fs, f) == [g \in (DOMAIN fs) \cup {f} |-> IF g = f THEN <<>> ELSE fs[g]]

\* one write(2) of bytes at offset 0 through a descriptor opened before:
\* what the file holds beyond the bytes written stays
write_at0(fs, f, bytes) ==
    [fs EXCEPT ![f] = bytes \o SubSeq(@, Len(bytes) + 1, Len(@))]

\* one file for all machines
get_machine_file_shared(machine_id) == <<"machine_", ".json">>

get_machine_file(machine_id) == <<"machine_">> \o machine_id \o <<".json">>

\* a record stamped with the time the process started
new_record_epoch(machine_id, weight, t1, t2) ==
    [machine_id |-> machine_id, weight |-> weight,
     timestamp |-> isoformat(0), last_updated |-> strftime(t2)]

\* the dict built at the top of save_weight_data; t1, t2 are the two
\* readings of datetime.now()
new_record(machine_id, weight, t1, t2) ==
    [machine_id |-> machine_id, weight |-> weight,
     timestamp |-> isoformat(t1), last_updated |-> strftime(t2)]

\* save_weight_data run without interruption.  fault is "none", "open"
\* (open raises: nothing is touched) or "write" (the file was opened and
\* truncated, then the flush at close raises after cut tokens were written).
save_weight_data(fs, machine_id, weight, t1, t2, fault, cut) ==
    LET f == get_machine_file(machine_id)
        bytes == json_dump(new_record(machine_id, weight, t1, t2))
    IN  CASE fault = "open" -> [ok |-> FALSE, fs |-> fs]
          [] fault = "write" ->
             [ok |-> FALSE, fs |-> write_at0(open_w(fs, f), f, SubSeq(bytes, 1, cut))]
          [] OTHER -> [ok |-> TRUE, fs |-> write_at0(open_w(fs, f), f, bytes)]

None == [isNone |-> TRUE]
Some(v) == [isNone |-> FALSE, value |-> v]

\* what load_weight_data returns once it has read `content`
load_result(content) ==
    LET r == json_load(content)
    IN  IF r.raised THEN None ELSE Some(r.value)

load_weight_data(fs, machine_id) ==
    LET f == get_machine_file(machine_id)
    IN  IF f \in DOMAIN fs THEN load_result(fs[f]) ELSE None

\* `if data:` is false for None and for the empty dict
is_truthy(data) == ~data.isNone /\ DOMAIN data.value # {}

\* data.get(key, default)
dict_get(d, key, default) == IF key \in DOMAIN d THEN d[key] ELSE default

\* str.replace(tok, '')
str_remove(s, tok) == SelectSeq(s, LAMBDA c : c # tok)

listed_id(filename) == str_remove(str_remove(filename, "machine_"), ".json")

\* an enumeration that reads each listed file itself and labels it with the
\* identifier recovered from its name
get_all_machines_by_file(fs) ==
    LET names == {f \in DOMAIN fs :
                     Len(f) > 0 /\ f[1] = "machine_" /\ f[Len(f)] = ".json"}
        kept == {f \in names : ~load_result(fs[f]).isNone}
        summary(f) == LET data == load_result(fs[f]).value
                      IN  [machine_id |-> listed_id(f),
                           weight |-> data.weight,
                           last_updated |-> data.last_updated]
    IN  [s \in {summary(f) : f \in kept} |->
            Cardinality({f \in kept : summary(f) = s})]

\* the bag of summaries get_all_machines returns (os.listdir gives the
\* names in no particular order).  data['weight'] raises KeyError on a dict
\* without that key; the except clause around the loop then returns [],
\* whatever had been appended
get_all_machines(fs) ==
    LET names == {f \in DOMAIN fs :
                     Len(f) > 0 /\ f[1] = "machine_" /\ f[Len(f)] = ".json"}
        kept == {f \in names : is_truthy(load_weight_data(fs, listed_id(f)))}
        summary(f) == LET data == load_weight_data(fs, listed_id(f)).value
                      IN  [machine_id |-> listed_id(f),
                           weight |-> data.weight,
                           last_updated |-> dict_get(data, "last_updated", "Unknown")]
    IN  IF \E f \in kept : "weight" \notin DOMAIN load_weight_data(fs, listed_id(f)).value
        THEN EmptyBag
        ELSE [s \in {summary(f) : f \in kept} |->
                 Cardinality({f \in kept : summary(f) = s})]

(***************************************************************************)
(* Request bodies.  A JSON value is [t, num, str]; a body is what          *)
(* request.get_json() returns: its kind, its truth value, whether          *)
(* 'weight' in body holds, and body['weight'].                             *)
(***************************************************************************)
JNum(n) == [t |-> "num", num |-> n, str |-> <<>>]
JStr(s) == [t |-> "str", num |-> 0, str |-> s]
JBool(b) == [t |-> "bool", num |-> IF b THEN 1 ELSE 0, str |-> <<>>]
JNull == [t |-> "null", num |-> 0, str |-> <<>>]
JList == [t |-> "list", num |-> 0, str |-> <<>>]

Body(kind, truthy, hasWeight, weight) ==
    [kind |-> kind, truthy |-> truthy, hasWeight |-> hasWeight, weight |-> weight]
WeightBody(v) == Body("object", TRUE, TRUE, v)

\* float(v): [exc, val]
py_float(v) ==
    CASE v.t = "num" -> [exc |-> "none", val |-> Fin(v.num)]
      [] v.t = "bool" -> [exc |-> "none", val |-> Fin(10 * v.num)]
      [] v.t = "str" ->
         IF v.str = <<"nan">> THEN [exc |-> "none", val |-> NaN]
         ELSE IF v.str = <<"inf">> THEN [exc |-> "none", val |-> Inf]
         ELSE IF IsNumberText(v.str) THEN [exc |-> "none", val |-> parse_float(v.str)]
         ELSE IF AllDigits(v.str) THEN [exc |-> "none", val |-> Fin(10 * IntParse(v.str))]
         ELSE [exc |-> "ValueError", val |-> NaN]
      [] OTHER -> [exc |-> "TypeError", val |-> NaN]

\* update_weight up to the call of save_weight_data: "save" with the float,
\* or the handler's early return / except clause
JsonResponse(code, body) == [code |-> code, body |-> body]

ErrorResponse(code, message) ==
    JsonResponse(code, [status |-> "error", message |-> message])

\* gj: whether request.get_json() raises (it may, on a request without a
\* JSON body; the exception is caught by `except Exception`)
validate(body, gj) ==
    LET w == py_float(body.weight)
    IN  CASE gj = "raise" /\ body.kind = "absent" ->
               [save |-> FALSE, resp |-> ErrorResponse(500, <<"HTTPException">>)]
          [] body.kind \in {"absent", "null"} \/ ~body.truthy ->
               [save |-> FALSE, resp |-> ErrorResponse(400, <<"No weight data provided">>)]
          [] body.kind \in {"number", "bool"} ->
               [save |-> FALSE, resp |-> ErrorResponse(500, <<"TypeError">>)]
          [] ~body.hasWeight ->
               [save |-> FALSE, resp |-> ErrorResponse(400, <<"No weight data provided">>)]
          [] body.kind \in {"array", "string"} ->
               [save |-> FALSE, resp |-> ErrorResponse(500, <<"TypeError">>)]
          [] w.exc = "ValueError" ->
               [save |-> FALSE, resp |-> ErrorResponse(400, <<"Invalid weight format">>)]
          [] w.exc = "TypeError" ->
               [save |-> FALSE, resp |-> ErrorResponse(500, <<"TypeError">>)]
          [] OTHER -> [save |-> TRUE, weight |-> w.val]

\* the response of update_weight after save_weight_data returned `saved`;
\* t3 is the handler's own reading of datetime.now()
update_response(machine_id, weight, saved, t3) ==
    IF saved
    THEN JsonResponse(200, [status |-> "success",
                            message |-> <<"Weight updated for Machine ">> \o machine_id,
                            machine_id |-> machine_id,
                            weight |-> weight,
                            timestamp |-> isoformat(t3)])
    ELSE ErrorResponse(500, <<"Failed to save weight data">>)

\* update_weight opening the machine's file before it validates the body
update_weight_eager(fs, machine_id, body, gj, t1, t2, t3, fault, cut) ==
    LET v == validate(body, gj)
    IN  IF ~v.save THEN [resp |-> v.resp, fs |-> open_w(fs, get_machine_file(machine_id))]
        ELSE LET r == save_weight_data(fs, machine_id, v.weight, t1, t2, fault, cut)
             IN  [resp |-> update_response(machine_id, v.weight, r.ok, t3), fs |-> r.fs]

\* update_weight run without interruption: [resp, fs]
update_weight(fs, machine_id, body, gj, t1, t2, t3, fault, cut) ==
    LET v == validate(body, gj)
    IN  IF ~v.save THEN [resp |-> v.resp, fs |-> fs]
        ELSE LET r == save_weight_data(fs, machine_id, v.weight, t1, t2, fault, cut)
             IN  [resp |-> update_response(machine_id, v.weight, r.ok, t3), fs |-> r.fs]

\* get_weight answering a zero weight for a machine without data
weight_response_default(machine_id, data) ==
    JsonResponse(200, [status |-> "success",
                       machine_id |-> machine_id,
                       weight |-> IF data.isNone THEN Fin(0) ELSE data.value.weight,
                       timestamp |-> IF data.isNone THEN isoformat(0)
                                     ELSE data.value.timestamp])

\* Flask's answer to an exception no handler catches
Unhandled(exc) == JsonResponse(500, [status |-> "unhandled", message |-> <<exc>>])

\* the response of get_weight once load_weight_data returned `data`;
\* data['weight'] and data['timestamp'] raise KeyError on a dict without them
weight_response(machine_id, data) ==
    IF is_truthy(data)
    THEN IF {"weight", "timestamp"} \subseteq DOMAIN data.value
         THEN JsonResponse(200, [status |-> "success",
                                 machine_id |-> machine_id,
                                 weight |-> data.value.weight,
                                 timestamp |-> data.value.timestamp])
         ELSE Unhandled("KeyError")
    ELSE JsonResponse(200, [status |-> "no_data",
                            message |-> <<"No weight data available for Machine ">>
                                        \o machine_id])

get_weight(fs, machine_id) == weight_response(machine_id, load_weight_data(fs, machine_id))

\* the response of list_machines once get_all_machines returned `machines`
machines_response(machines) ==
    JsonResponse(200, [status |-> "success",
                       machines |-> machines,
                       count |-> BagCardinality(machines)])

list_machines(fs) == machines_response(get_all_machines(fs))

health_check(fs, t) ==
    JsonResponse(200, [status |-> "healthy",
                       timestamp |-> isoformat(t),
                       machines_count |-> BagCardinality(get_all_machines(fs))])

(***************************************************************************)
(* Inputs.                                                                 *)
(***************************************************************************)
\* identifiers the route /api/update/<machine_id> accepts
MachineIds == {<<"1">>, <<"3">>}

\* {"weight": 10.5}, {"weight": 9.5}
NumberBodies == {WeightBody(JNum(105)), WeightBody(JNum(95))}

\* and {"weight": "9.5"}, which float() accepts too
ValidBodies == NumberBodies \cup {WeightBody(JStr(<<"9", ".", "5">>))}

\* no body, {}, {"x": 1}, ["weight"], 5, and {"weight": v} for
\* v = "abc", null, [..]
InvalidBodies ==
    {Body("absent", FALSE, FALSE, JNull),
     Body("object", FALSE, FALSE, JNull),
     Body("object", TRUE, FALSE, JNull),
     Body("array", TRUE, TRUE, JNull),
     Body("number", TRUE, FALSE, JNull),
     WeightBody(JStr(<<"abc">>)),
     WeightBody(JNull),
     WeightBody(JList)}

Bodies == NumberBodies \cup InvalidBodies

NoBody == Body("absent", FALSE, FALSE, JNull)

Request(op, machine_id, body, time) ==
    [op |-> op, machine_id |-> machine_id, body |-> body, time |-> time]

\* a failed flush at close wrote nothing, or everything but the last token
Cuts(n) == {0, n - 1}

RecordLen(machine_id, weight) == Len(json_dump(new_record(machine_id, weight, 0, 0)))

\* what request.get_json() may do: return the body, or raise (it may, on a
\* request that carries no JSON body)
GetJsonOutcomes(body) == IF body.kind = "absent" THEN {"value", "raise"} ELSE {"value"}

\* what the environment decides during one update_weight: the time that
\* passes between the readings of the clock (two in save_weight_data, and
\* one more for the response when the save succeeded), and whether the file
\* system fails.  A request that is rejected reads no clock and opens no file.
Env(d1, d2, fault, cut) == [d1 |-> d1, d2 |-> d2, fault |-> fault, cut |-> cut]

Envs(machine_id, body, gj, faulty) ==
    LET v == validate(body, gj)
    IN  IF ~v.save THEN {Env(0, 0, "none", 0)}
        ELSE {Env(d1, d2, "none", 0) : d1 \in 0..1, d2 \in 0..1}
             \cup (IF faulty
                   THEN {Env(d1, 0, "open", 0) : d1 \in 0..1}
                        \cup {Env(d1, 0, "write", c) :
                                d1 \in 0..1,
                                c \in Cuts(RecordLen(machine_id, v.weight))}
                   ELSE {})

(***************************************************************************)
(* The handlers, each run from request to response with no other request   *)
(* in between.                                                             *)
(***************************************************************************)
NoRequest == Request("none", <<>>, NoBody, 0)
NoResponse == JsonResponse(0, [status |-> "none"])

Init ==
    /\ files = [f \in {} |-> <<>>]
    /\ clock = 0
    /\ req = NoRequest
    /\ resp = NoResponse
    /\ prior = "none"
    /\ pc = [t \in Threads |-> "idle"]
    /\ treq = [t \in Threads |-> NoRequest]
    /\ buf = [t \in Threads |-> <<>>]
    /\ tresp = [t \in Threads |-> NoResponse]
    /\ order = <<>>
    /\ todo = [t \in Threads |-> {}]
    /\ summaries = [t \in Threads |-> EmptyBag]

\* time passes
Tick ==
    /\ clock < MaxClock
    /\ clock' = clock + 1
    /\ UNCHANGED <<files, req, resp, prior, thrvars>>

\* POST /api/update/<machine_id>
Update(machine_id, body, gj, env) ==
    LET t1 == clock
        t2 == clock + env.d1
        t3 == clock + env.d1 + env.d2
        r == update_weight(files, machine_id, body, gj, t1, t2, t3, env.fault, env.cut)
    IN  /\ t3 <= MaxClock
        /\ files' = r.fs
        /\ clock' = t3
        /\ req' = Request("update", machine_id, body, clock)
        /\ resp' = r.resp
        /\ prior' = get_weight(files, machine_id).body.status
        /\ UNCHANGED thrvars

Submit ==
    \E machine_id \in MachineIds, body \in Bodies :
        \E gj \in GetJsonOutcomes(body) :
            \E env \in Envs(machine_id, body, gj, TRUE) :
                Update(machine_id, body, gj, env)

\* a GET that removes the machine's file when it does not decode
Weight_unlink(machine_id) ==
    LET f == get_machine_file(machine_id)
    IN  /\ req' = Request("weight", machine_id, NoBody, clock)
        /\ resp' = get_weight(files, machine_id)
        /\ prior' = get_weight(files, machine_id).body.status
        /\ files' = IF f \in DOMAIN files /\ load_weight_data(files, machine_id).isNone
                    THEN [g \in DOMAIN files \ {f} |-> files[g]]
                    ELSE files
        /\ UNCHANGED <<clock, thrvars>>

\* GET /api/weight/<machine_id>
Weight(machine_id) ==
    /\ req' = Request("weight", machine_id, NoBody, clock)
    /\ resp' = get_weight(files, machine_id)
    /\ prior' = get_weight(files, machine_id).body.status
    /\ UNCHANGED <<files, clock, thrvars>>

GetLatest == \E machine_id \in MachineIds : Weight(machine_id)

\* GET /api/machines
ListMachines ==
    /\ req' = Request("machines", <<>>, NoBody, clock)
    /\ resp' = list_machines(files)
    /\ prior' = "none"
    /\ UNCHANGED <<files, clock, thrvars>>

\* GET /api/health
Health ==
    /\ req' = Request("health", <<>>, NoBody, clock)
    /\ resp' = health_check(files, clock)
    /\ prior' = "none"
    /\ UNCHANGED <<files, clock, thrvars>>

Next == Tick \/ Submit \/ GetLatest \/ ListMachines \/ Health

Spec == Init /\ [][Next]_vars

(***************************************************************************)
(* Properties of the handlers run one after another (Spec).                *)
(***************************************************************************)
IsUpdate(r) == r.op = "update"
Succeeded(r) == r.code = 200 /\ r.body.status = "success"
SaveFailed(r) == r.body.status = "error" /\ r.body.message = <<"Failed to save weight data">>
NoData(r) ==
    /\ r.code = 200
    /\ DOMAIN r.body = {"status", "message"}
    /\ r.body.status = "no_data"
NumericBody(body) == body \in NumberBodies

\* C1: round trip.  A GET /api/weight/<id> that follows a successful
\* POST /api/update/<id> of the number w, with no other update in between,
\* answers "success" with that id and with weight exactly w.
C1_RoundTrip ==
    [][(/\ IsUpdate(req) /\ Succeeded(resp) /\ NumericBody(req.body)
        /\ req'.op = "weight" /\ req'.machine_id = req.machine_id)
       => (/\ Succeeded(resp')
           /\ resp'.body.machine_id = req.machine_id
           /\ resp'.body.weight = Fin(req.body.weight.num))]_vars

C1_Witness ==
    /\ req.op = "weight" /\ Succeeded(resp)
    /\ resp.body.weight = Fin(105)
    /\ \E m \in MachineIds :
          /\ m # req.machine_id
          /\ Succeeded(get_weight(files, m))
          /\ get_weight(files, m).body.weight = Fin(95)

\* C2: latest value only.  After a successful update of a machine, whatever
\* the machine's file held before, the file holds exactly the one record
\* built by that update (its weight, a timestamp read during it), and
\* GET /api/weight and GET /api/machines show that record's fields only.
C2_LatestOnly ==
    (IsUpdate(req) /\ Succeeded(resp)) =>
        LET m == req.machine_id
            f == get_machine_file(m)
            w == Fin(req.body.weight.num)
            t3 == DigitVal(resp.body.timestamp)
            got == get_weight(files, m)
            listed == list_machines(files).body.machines
        IN  \E t1 \in req.time..t3 : \E t2 \in t1..t3 :
              /\ f \in DOMAIN files
              /\ files[f] = json_dump(new_record(m, w, t1, t2))
              /\ Succeeded(got)
              /\ got.body.weight = w
              /\ got.body.timestamp = isoformat(t1)
              /\ \A s \in DOMAIN listed :
                    s.machine_id = m => s.weight = w /\ s.last_updated = strftime(t2)
              /\ \E s \in DOMAIN listed : s.machine_id = m /\ listed[s] = 1

\* a shorter record (9.5) has replaced a record the machine had before
C2_Witness ==
    /\ IsUpdate(req) /\ Succeeded(resp) /\ prior = "success"
    /\ resp.body.weight = Fin(95)
    /\ req.time = MaxClock

\* C3: a machine for which no update has succeeded has no data.  Initially
\* every machine answers "no_data" (code 200, keys status and message), and
\* a machine that answers "no_data" still does after any step that is not a
\* successful update of that very machine.
C3_NeverSubmitted ==
    /\ \A m \in MachineIds : NoData(get_weight(files, m))
    /\ [][\A m \in MachineIds :
            (/\ NoData(get_weight(files, m))
             /\ ~(IsUpdate(req') /\ req'.machine_id = m /\ Succeeded(resp')))
            => /\ NoData(get_weight(files', m))
               /\ (req'.op = "weight" /\ req'.machine_id = m) => NoData(resp')]_vars

\* GET for a machine never written answers no_data while the other machine
\* has a record and an update of the machine itself has failed
C3_Witness ==
    /\ req.op = "weight" /\ NoData(resp)
    /\ get_machine_file(req.machine_id) \in DOMAIN files
    /\ \E m \in MachineIds : m # req.machine_id /\ Succeeded(get_weight(files, m))

\* C5: a failed Put preserves the old record.  When save_weight_data fails
\* (at open, or while writing), the update answers 500 and
\* GET /api/weight/<id> answers what it answered before the update.
C5_FailedPutPreserves ==
    [][(IsUpdate(req') /\ SaveFailed(resp'))
       => (/\ resp'.code = 500
           /\ get_weight(files', req'.machine_id) = get_weight(files, req'.machine_id))]_vars

\* C6: a rejected update never reaches the store.  An update whose body has
\* no weight or a non-numeric weight leaves every file as it was, so
\* GET /api/weight answers for every machine what it answered before.
C6_RejectedLeavesStore ==
    [][(IsUpdate(req') /\ req'.body \in InvalidBodies)
       => (/\ files' = files
           /\ \A m \in MachineIds : get_weight(files', m) = get_weight(files, m))]_vars

C6_Witness ==
    /\ IsUpdate(req) /\ req.body = WeightBody(JStr(<<"abc">>))
    /\ resp.code = 400
    /\ prior = "success"
    /\ Succeeded(get_weight(files, req.machine_id))

\* C7: an update whose body has no weight or a non-numeric weight is
\* answered with status "error" and code 400.
C7_InvalidIs400 ==
    (IsUpdate(req) /\ req.body \in InvalidBodies)
        => (resp.code = 400 /\ resp.body.status = "error")

\* C11: the state a machine shows is monotone.  Once GET /api/weight/<id>
\* answers "success" for a machine it answers "success" after every later
\* step, whatever updates (valid, invalid or failing) are made.
C11_Monotone ==
    [][\A m \in MachineIds :
          Succeeded(get_weight(files, m)) => Succeeded(get_weight(files', m))]_vars

\* C13: the acknowledgement of a successful update echoes the request's
\* machine_id and the accepted weight, and its timestamp is the one stored
\* in the record: GET /api/weight/<id> right after it answers that timestamp.
C13_AckTimestamp ==
    (IsUpdate(req) /\ Succeeded(resp)) =>
        /\ resp.body.machine_id = req.machine_id
        /\ resp.body.weight = Fin(req.body.weight.num)
        /\ Succeeded(get_weight(files, req.machine_id))
        /\ get_weight(files, req.machine_id).body.timestamp = resp.body.timestamp

\* C14: cross-key isolation.  An update of machine m, whether it succeeds,
\* is rejected or fails while saving, leaves the file of every other machine
\* as it was, and GET /api/weight answers for every other machine what it
\* answered before.
C14_OtherKeysUnchanged ==
    [][IsUpdate(req') =>
         \A m \in MachineIds \ {req'.machine_id} :
            /\ get_weight(files', m) = get_weight(files, m)
            /\ (get_machine_file(m) \in DOMAIN files') = (get_machine_file(m) \in DOMAIN files)
            /\ get_machine_file(m) \in DOMAIN files
                 => files'[get_machine_file(m)] = files[get_machine_file(m)]]_vars

\* an update of one machine has failed while writing, and the other
\* machine still shows its record
C14_Witness ==
    /\ IsUpdate(req) /\ SaveFailed(resp)
    /\ ~Succeeded(get_weight(files, req.machine_id))
    /\ get_machine_file(req.machine_id) \in DOMAIN files
    /\ \E m \in MachineIds \ {req.machine_id} : Succeeded(get_weight(files, m))

\* C16: with a clock that never goes back, the timestamp GET /api/weight
\* answers for a record is not earlier than the time at which the update
\* that wrote the record was called.
C16_TimestampNotEarlier ==
    (IsUpdate(req) /\ Succeeded(resp)) =>
        /\ Succeeded(get_weight(files, req.machine_id))
        /\ DigitVal(get_weight(files, req.machine_id).body.timestamp) >= req.time

\* an update called after the clock has advanced has written its record
C16_Witness ==
    /\ IsUpdate(req) /\ Succeeded(resp)
    /\ req.time > 0
    /\ get_weight(files, req.machine_id).body.timestamp = isoformat(req.time)

(***************************************************************************)
(* The same handlers over identifiers that contain the substrings the      *)
(* enumeration strips from file names (SpecIds); no file system faults.    *)
(***************************************************************************)
AliasIds == {<<"1">>, <<"3">>, <<"1", ".json">>}

SubmitIds ==
    \E machine_id \in AliasIds, body \in ValidBodies :
        \E env \in Envs(machine_id, body, "value", FALSE) :
            Update(machine_id, body, "value", env)

GetLatestIds == \E machine_id \in AliasIds : Weight(machine_id)

NextIds == Tick \/ SubmitIds \/ GetLatestIds \/ ListMachines \/ Health

SpecIds == Init /\ [][NextIds]_vars

\* C8: GET /api/machines is exact.  It answers one summary for each
\* machine that has a record and none for any other identifier, each with
\* that machine's weight, and count is the number of summaries (0 and an
\* empty sequence when no machine has reported).
C8_ListExact ==
    (req.op = "machines") =>
        LET have == {m \in AliasIds : Succeeded(get_weight(files, m))}
            listed == resp.body.machines
        IN  /\ Succeeded(resp)
            /\ {s.machine_id : s \in DOMAIN listed} = have
            /\ \A s \in DOMAIN listed :
                  /\ listed[s] = 1
                  /\ s.weight = get_weight(files, s.machine_id).body.weight
            /\ resp.body.count = Cardinality(have)

\* C19: GET /api/machines agrees with GET /api/weight.  In every state
\* between requests, for each summary (machine_id, weight) the enumeration
\* gives, GET /api/weight/<machine_id> answers "success" with that weight,
\* also for identifiers that contain the substrings stripped from file names.
C19_ListAgreesWithGet ==
    LET listed == list_machines(files).body.machines
    IN  \A s \in DOMAIN listed :
           /\ Succeeded(get_weight(files, s.machine_id))
           /\ get_weight(files, s.machine_id).body.weight = s.weight

\* the enumeration has answered, two files (machine_1.json and
\* machine_1.json.json) being listed under one identifier, while the records
\* of the two identifiers differ
C19_Witness ==
    /\ req.op = "machines"
    /\ \E s \in DOMAIN resp.body.machines : resp.body.machines[s] = 2
    /\ Succeeded(get_weight(files, <<"1">>))
    /\ Succeeded(get_weight(files, <<"1", ".json">>))
    /\ get_weight(files, <<"1">>).body.weight
         # get_weight(files, <<"1", ".json">>).body.weight

(***************************************************************************)
(* The handlers over a data directory that is not empty when the process   *)
(* starts (SpecDir): each machine's file is absent, holds a record, or      *)
(* holds something else.  No file system faults.                           *)
(***************************************************************************)
\* what a file that is not a record may hold: nothing, a record cut short
\* (both are left by a failed write), {} or {"machine_id": "<id>"}
BadContents(machine_id) ==
    LET bytes == json_dump(new_record(machine_id, Fin(105), 0, 0))
    IN  {<<>>,
         SubSeq(bytes, 1, Len(bytes) - 1),
         <<"{", "}">>,
         <<"{", "machine_id", "q">> \o machine_id \o <<"q", "}">>}

DirContents(machine_id) ==
    {json_dump(new_record(machine_id, Fin(105), 0, 0))} \cup BadContents(machine_id)

\* the directories: for each machine no file, or a file with one of the
\* contents above
DirStates ==
    UNION {[{get_machine_file(m) : m \in present} -> UNION {DirContents(m) : m \in present}] :
             present \in SUBSET MachineIds}

InitDir ==
    /\ files \in {d \in DirStates :
                    \A m \in MachineIds :
                       get_machine_file(m) \in DOMAIN d
                         => d[get_machine_file(m)] \in DirContents(m)}
    /\ clock = 0
    /\ req = NoRequest
    /\ resp = NoResponse
    /\ prior = "none"
    /\ pc = [t \in Threads |-> "idle"]
    /\ treq = [t \in Threads |-> NoRequest]
    /\ buf = [t \in Threads |-> <<>>]
    /\ tresp = [t \in Threads |-> NoResponse]
    /\ order = <<>>
    /\ todo = [t \in Threads |-> {}]
    /\ summaries = [t \in Threads |-> EmptyBag]

SubmitDir ==
    \E machine_id \in MachineIds :
        \E env \in Envs(machine_id, WeightBody(JNum(95)), "value", FALSE) :
            Update(machine_id, WeightBody(JNum(95)), "value", env)

NextDir == Tick \/ SubmitDir \/ GetLatest \/ ListMachines \/ Health

SpecDir == InitDir /\ [][NextDir]_vars

HasFile(m) == get_machine_file(m) \in DOMAIN files
ValidRecord(m) == HasFile(m) /\ json_wellformed(files[get_machine_file(m)])

\* C12: one bad entry does not fail the enumeration.  When exactly one
\* machine's file is not a valid record (cut short, empty, or JSON that is
\* not an object with a weight), GET /api/machines answers "success" with
\* one summary for every machine whose file is a valid record, with that
\* record's weight, and with none for the bad one.
C12_BadEntrySkipped ==
    (/\ req.op = "machines"
     /\ Cardinality({m \in MachineIds : HasFile(m) /\ ~ValidRecord(m)}) = 1)
    => LET listed == resp.body.machines
       IN  /\ Succeeded(resp)
           /\ {s.machine_id : s \in DOMAIN listed} = {m \in MachineIds : ValidRecord(m)}
           /\ \A s \in DOMAIN listed :
                 /\ listed[s] = 1
                 /\ s.weight = json_load(files[get_machine_file(s.machine_id)]).value.weight

QueryOps == {"weight", "machines", "health"}

\* C18: the queries are read-only.  A step in which GET /api/weight,
\* GET /api/machines or GET /api/health is handled leaves the directory as
\* it was: no file is created, changed or removed, whatever the files hold.
C18_QueriesReadOnly ==
    [][req'.op \in QueryOps => files' = files]_vars

\* GET /api/weight has answered for a machine whose file does not decode,
\* and the file is still there
C18_Witness ==
    /\ req.op = "weight"
    /\ HasFile(req.machine_id) /\ ~ValidRecord(req.machine_id)
    /\ files[get_machine_file(req.machine_id)] # <<>>
    /\ NoData(resp)

(***************************************************************************)
(* The handlers over weights given as text that float() accepts without    *)
(* it being a decimal number (SpecNan).  No file system faults.            *)
(***************************************************************************)
\* {"weight": "nan"}, {"weight": "inf"}
NonFiniteBodies == {WeightBody(JStr(<<"nan">>)), WeightBody(JStr(<<"inf">>))}

\* and {"weight": 10.5}, {"weight": "abc"}
NanBodies == NonFiniteBodies \cup {WeightBody(JNum(105)), WeightBody(JStr(<<"abc">>))}

SubmitNan ==
    \E machine_id \in MachineIds, body \in NanBodies :
        \E env \in Envs(machine_id, body, "value", FALSE) :
            Update(machine_id, body, "value", env)

NextNan == Tick \/ SubmitNan \/ GetLatest \/ ListMachines \/ Health

SpecNan == Init /\ [][NextNan]_vars

\* C15: every stored weight is finite.  An update whose weight is not a
\* finite decimal number (not numeric, or text that converts to NaN or to
\* an infinity) is answered with an error, and the weight of every record
\* GET /api/weight shows is a finite number.
C15_FiniteWeights ==
    /\ (IsUpdate(req) /\ req.body \in NonFiniteBodies) => resp.body.status = "error"
    /\ \A m \in MachineIds :
          Succeeded(get_weight(files, m)) => get_weight(files, m).body.weight.cls = "fin"

(***************************************************************************)
(* Concurrent requests (SpecConc): NThreads requests, each handled by its  *)
(* own thread, interleaved at the steps that touch the file system.  The   *)
(* store starts with a record for machine "1", written by an earlier       *)
(* update, and none for machine "3".  No file system faults.               *)
(***************************************************************************)
OldMachine == <<"1">>
OldRecord == new_record(OldMachine, Fin(105), 0, 0)

\* {"weight": 9.5}, {"weight": 12.0}
ConcBodies == {WeightBody(JNum(95)), WeightBody(JNum(120))}

InitConc ==
    /\ files = save_weight_data([f \in {} |-> <<>>], OldMachine, Fin(105), 0, 0, "none", 0).fs
    /\ clock = 0
    /\ req = NoRequest
    /\ resp = NoResponse
    /\ prior = "none"
    /\ pc = [t \in Threads |-> "idle"]
    /\ treq = [t \in Threads |-> NoRequest]
    /\ buf = [t \in Threads |-> <<>>]
    /\ tresp = [t \in Threads |-> NoResponse]
    /\ order = <<>>
    /\ todo = [t \in Threads |-> {}]
    /\ summaries = [t \in Threads |-> EmptyBag]

TickConc ==
    /\ clock < MaxClock
    /\ clock' = clock + 1
    /\ UNCHANGED <<files, seqvars, thrvars>>

Return(t, response) ==
    /\ tresp' = [tresp EXCEPT ![t] = response]
    /\ pc' = [pc EXCEPT ![t] = "done"]
    /\ order' = Append(order, t)

\* update_weight, lines 643-651 and save_weight_data, lines 35-40: the body
\* is validated and the record built from two readings of the clock
UpdateBegin(t) ==
    \E machine_id \in MachineIds, body \in ConcBodies, d1 \in 0..1 :
        LET v == validate(body, "value")
        IN  /\ pc[t] = "idle"
            /\ clock + d1 <= MaxClock
            /\ treq' = [treq EXCEPT ![t] = Request("update", machine_id, body, clock)]
            /\ buf' = [buf EXCEPT ![t] =
                          json_dump(new_record(machine_id, v.weight, clock, clock + d1))]
            /\ clock' = clock + d1
            /\ pc' = [pc EXCEPT ![t] = "open"]
            /\ UNCHANGED <<files, seqvars, tresp, order, lstvars>>

\* save_weight_data, line 44: open(file_path, 'w')
UpdateOpen(t) ==
    /\ pc[t] = "open"
    /\ files' = open_w(files, get_machine_file(treq[t].machine_id))
    /\ pc' = [pc EXCEPT ![t] = "write"]
    /\ UNCHANGED <<clock, seqvars, treq, buf, tresp, order, lstvars>>

\* save_weight_data, lines 44-46: leaving the with block flushes the buffer
\* in one write and closes the file; update_weight then answers
UpdateWrite(t) ==
    /\ pc[t] = "write"
    /\ files' = write_at0(files, get_machine_file(treq[t].machine_id), buf[t])
    /\ Return(t, update_response(treq[t].machine_id,
                                 validate(treq[t].body, "value").weight, TRUE, clock))
    /\ UNCHANGED <<clock, seqvars, treq, buf, lstvars>>

\* load_weight_data, line 55: os.path.exists(file_path)
WeightExists(t) ==
    \E machine_id \in MachineIds :
        /\ pc[t] = "idle"
        /\ treq' = [treq EXCEPT ![t] = Request("weight", machine_id, NoBody, clock)]
        /\ IF get_machine_file(machine_id) \in DOMAIN files
           THEN pc' = [pc EXCEPT ![t] = "ropen"] /\ UNCHANGED <<tresp, order>>
           ELSE Return(t, weight_response(machine_id, None))
        /\ UNCHANGED <<files, clock, seqvars, buf, lstvars>>

\* load_weight_data, line 56: open(file_path, 'r'); no file is ever removed
WeightOpen(t) ==
    /\ pc[t] = "ropen"
    /\ pc' = [pc EXCEPT ![t] = "read"]
    /\ UNCHANGED <<files, clock, seqvars, treq, buf, tresp, order, lstvars>>

\* a reader that opens the file again instead of answering
WeightRead_retry(t) ==
    /\ pc[t] = "read"
    /\ pc' = [pc EXCEPT ![t] = "ropen"]
    /\ UNCHANGED <<files, clock, seqvars, treq, buf, tresp, order, lstvars>>

\* load_weight_data, line 57: json.load reads the file and decodes it;
\* get_weight then answers
WeightRead(t) ==
    /\ pc[t] = "read"
    /\ \E content \in {files[get_machine_file(treq[t].machine_id)]} :
          \E data \in {load_result(content)} :
             Return(t, weight_response(treq[t].machine_id, data))
    /\ UNCHANGED <<files, clock, seqvars, treq, buf, lstvars>>

NextConc ==
    \/ TickConc
    \/ \E t \in Threads :
          \/ UpdateBegin(t)
          \/ UpdateOpen(t)
          \/ UpdateWrite(t)
          \/ WeightExists(t)
          \/ WeightOpen(t)
          \/ WeightRead(t)

SpecConc == InitConc /\ [][NextConc]_vars

(***************************************************************************)
(* Properties of concurrent requests (SpecConc).                           *)
(***************************************************************************)
Updaters(machine_id) ==
    {t \in Threads : treq[t].op = "update" /\ treq[t].machine_id = machine_id}

\* the GET response that shows the complete record `text` encodes
ShowsRecord(r, machine_id, text) ==
    /\ json_wellformed(text)
    /\ r = weight_response(machine_id, Some(json_load(text).value))

\* C4: read/write atomicity.  A GET for the machine that has a record,
\* whatever updates of that machine run beside it, answers with the
\* complete old record or with the complete record of one of those updates:
\* never with a partial record and never with "no_data".
C4_ReadAtomic ==
    \A r \in Threads :
        (pc[r] = "done" /\ treq[r].op = "weight" /\ treq[r].machine_id = OldMachine)
        => \/ ShowsRecord(tresp[r], OldMachine, json_dump(OldRecord))
           \/ \E w \in Updaters(OldMachine) : ShowsRecord(tresp[r], OldMachine, buf[w])

\* the last of the threads in `ts` to return
LastOf(ts) ==
    order[CHOOSE i \in 1..Len(order) :
            /\ order[i] \in ts
            /\ \A j \in (i + 1)..Len(order) : order[j] \notin ts]

\* C9: same-key writes are atomically ordered.  Once two or more concurrent
\* updates of one machine have all returned, the machine's file decodes and
\* is exactly the record written by the last of them to return.
C9_WritesOrdered ==
    \A m \in MachineIds :
        (/\ Cardinality(Updaters(m)) >= 2
         /\ \A t \in Updaters(m) : pc[t] = "done")
        => /\ json_wellformed(files[get_machine_file(m)])
           /\ files[get_machine_file(m)] = buf[LastOf(Updaters(m))]

\* C10: concurrent updates of distinct machines.  An update that has
\* returned, of a machine no other concurrent request updates, has answered
\* "success", and GET /api/weight for its machine answers the weight it
\* submitted, whatever the other threads have done meanwhile.
C10_DistinctKeys ==
    \A t \in Threads :
        (pc[t] = "done" /\ treq[t].op = "update" /\ Updaters(treq[t].machine_id) = {t})
        => /\ Succeeded(tresp[t])
           /\ Succeeded(get_weight(files, treq[t].machine_id))
           /\ get_weight(files, treq[t].machine_id).body.weight
                = Fin(treq[t].body.weight.num)

\* every thread has returned from an update, no two of the same machine,
\* after their file steps were interleaved
C10_Witness ==
    /\ \A t \in Threads : pc[t] = "done" /\ treq[t].op = "update"
    /\ \A t \in Threads : Updaters(treq[t].machine_id) = {t}
    /\ \A m \in MachineIds : Succeeded(get_weight(files, m))
    /\ order[1] = NThreads

(***************************************************************************)
(* Concurrent requests scheduled fairly (SpecLive): the threads above and  *)
(* threads that handle GET /api/machines, one listed file at a step.  A    *)
(* request may never arrive, but a thread that has begun to handle one is  *)
(* scheduled again and again.  Termination depends neither on the weights *)
(* nor on the time that passes, so updates carry {"weight": 9.5} and the   *)
(* clock stands still.                                                     *)
(***************************************************************************)
\* one pass of the loop of get_all_machines: load_weight_data has returned
\* `data` for machine_id
list_entry(machine_id, data, appended) ==
    CASE ~is_truthy(data) -> [raised |-> FALSE, machines |-> appended]
      [] "weight" \notin DOMAIN data.value -> [raised |-> TRUE, machines |-> EmptyBag]
      [] OTHER ->
         [raised |-> FALSE,
          machines |-> appended (+) SetToBag({[machine_id |-> machine_id,
                                               weight |-> data.value.weight,
                                               last_updated |->
                                                  dict_get(data.value, "last_updated", "Unknown")]})]

UpdateBeginLive(t) ==
    /\ UpdateBegin(t)
    /\ treq'[t].body = WeightBody(JNum(95))
    /\ clock' = clock

\* get_all_machines, line 67: os.listdir(DATA_DIR)
ListDir(t) ==
    /\ pc[t] = "idle"
    /\ treq' = [treq EXCEPT ![t] = Request("machines", <<>>, NoBody, clock)]
    /\ todo' = [todo EXCEPT ![t] =
                   {f \in DOMAIN files :
                      Len(f) > 0 /\ f[1] = "machine_" /\ f[Len(f)] = ".json"}]
    /\ summaries' = [summaries EXCEPT ![t] = EmptyBag]
    /\ pc' = [pc EXCEPT ![t] = "scan"]
    /\ UNCHANGED <<files, clock, seqvars, buf, tresp, order>>

\* get_all_machines, lines 68-75: the next name is loaded and, if it has
\* data, summarised; an exception ends the loop and list_machines answers
\* with no summaries
ListEntry(t) ==
    /\ pc[t] = "scan"
    /\ \E f \in todo[t] :
          \E machine_id \in {listed_id(f)} :
          \E data \in {load_weight_data(files, machine_id)} :
             \E r \in {list_entry(machine_id, data, summaries[t])} :
                /\ summaries' = [summaries EXCEPT ![t] = r.machines]
                /\ IF r.raised
                   THEN todo' = [todo EXCEPT ![t] = {}]
                        /\ Return(t, machines_response(r.machines))
                   ELSE todo' = [todo EXCEPT ![t] = @ \ {f}]
                        /\ UNCHANGED <<pc, tresp, order>>
    /\ UNCHANGED <<files, clock, seqvars, treq, buf>>

\* get_all_machines, line 76 and list_machines: the loop is over
ListReturn(t) ==
    /\ pc[t] = "scan"
    /\ todo[t] = {}
    /\ Return(t, machines_response(summaries[t]))
    /\ UNCHANGED <<files, clock, seqvars, treq, buf, lstvars>>

\* the steps of a thread that has begun to handle a request
Step(t) ==
    \/ UpdateOpen(t)
    \/ UpdateWrite(t)
    \/ WeightOpen(t)
    \/ WeightRead(t)
    \/ ListEntry(t)
    \/ ListReturn(t)

NextLive ==
    \E t \in Threads :
        \/ UpdateBeginLive(t)
        \/ WeightExists(t)
        \/ ListDir(t)
        \/ Step(t)

SpecLive == InitConc /\ [][NextLive]_vars /\ \A t \in Threads : WF_vars(Step(t))

\* C17: no request waits on another.  Under fair scheduling of the threads,
\* every request a thread has begun to handle (an update, a GET of one
\* machine, the enumeration), whatever the other threads do to the same or
\* to other files meanwhile, is eventually answered.
C17_EveryCallReturns ==
    \A t \in Threads : (pc[t] # "idle") ~> (pc[t] = "done")

\* every thread has answered; an enumeration answered no summary for the
\* machine that had a record, having read its file between the open and the
\* write of an update
C17_Witness ==
    /\ \A t \in Threads : pc[t] = "done"
    /\ \E t \in Threads :
          /\ treq[t].op = "machines"
          /\ tresp[t].body.count = 0
    /\ \E t \in Threads : treq[t].op = "update" /\ treq[t].machine_id = OldMachine

=============================================================================
